---- MODULE Spec2Model ----
(***************************************************************************)
(* Model of the API-gateway provisioning script.                           *)
(*   src/aws_config/aws_config.py   : load_aws_config                      *)
(*   src/api_gateway/aws_gateway.py : module start-up and                  *)
(*                                    setup_rest_api_gateway               *)
(* The process is single-threaded.  pc is the position of the interpreter: *)
(* one value per statement that issues a remote call, sleeps or finishes.  *)
(***************************************************************************)
EXTENDS Integers, Sequences, FiniteSets, TLC

\* ------------------------------------------------------------------ bounds
\* time.sleep(s) suspends for at least s; it may return up to MaxOversleep later
MaxOversleep == 1

\* ------------------------------------------------------------------ values
\* Python's None (os.getenv of an unset variable, a function returning None)
None == "<None>"

\* str(x): the text of a value; str(None) is the four letters "None"
Str(x) == IF x = None THEN "None" ELSE x

\* bool(x) of a string-or-None: None and "" are falsy
Truthy(x) == x # None /\ x # ""

\* values an environment variable is given in the model
EnvValues == {None, "", "v"}
DebugValues == {None, "0", "1", "true"}
EnvKeys == {"DEBUG", "AWS_REGION", "AWS_ACCESS_KEY_ID", "AWS_SECRET_ACCESS_KEY",
            "AWS_ENDPOINT_URL"}

\* every environment of the model
Environments ==
    { e \in [EnvKeys -> EnvValues \cup DebugValues] :
        /\ e["DEBUG"] \in DebugValues
        /\ \A k \in EnvKeys \ {"DEBUG"} : e[k] \in EnvValues }

\* environments the provisioning run is explored under: local debugging, a
\* complete production environment, and one that lacks the secret key
RunEnvironments ==
    { e \in Environments :
        /\ e["DEBUG"] \in {"0", "1"}
        /\ e["AWS_REGION"] = "v" /\ e["AWS_ACCESS_KEY_ID"] = "v"
        /\ e["AWS_ENDPOINT_URL"] = "v"
        /\ e["AWS_SECRET_ACCESS_KEY"] \in {None, "v"} }

\* inputs of setup_rest_api_gateway
ApiNames == {"demo-api", "orders-api"}
HttpVerbs == {"GET", "POST"}

\* identifiers the gateway service hands out
ApiIds == {"a1", "a2"}
RootIds == {"r1", "r2"}
ChildIds == {"t1", "t2"}

\* how a remote call ends: a response, botocore's ClientError (a service
\* error), or any other exception (connection failure, validation error)
Outcomes == {"ok", "ClientError", "OtherError"}

\* client.configuration.host of the local development service
LocalstackHost == "localstack-host"

VARIABLES
    env,              \* os.environ after load_dotenv()
    config,           \* module-level config; <<>> while unbound
    client,           \* TRUE once apigateway_client is constructed
    pc,               \* position of the interpreter
    api_name,         \* arguments of setup_rest_api_gateway
    http_method,
    api_id,           \* locals of setup_rest_api_gateway
    root_resource_id,
    test_resource_id,
    deployment_id,
    invoke_url,       \* value returned by get_invoke_url; <<>> before
    calls,            \* remote calls issued so far, in order
    stdout,           \* lines printed so far, in order
    clock,            \* time elapsed since process start
    exc,              \* exception that ended the process, or None
    exit_code         \* exit status; meaningful once pc = "done"

vars == <<env, config, client, pc, api_name, http_method, api_id,
          root_resource_id, test_resource_id, deployment_id, invoke_url,
          calls, stdout, clock, exc, exit_code>>

runVars == <<api_name, http_method, api_id, root_resource_id,
             test_resource_id, deployment_id, invoke_url>>

\* ------------------------------------------------------- aws_config.py
\* os.getenv(key, default)
getenv(e, key, default) == IF e[key] = None THEN default ELSE e[key]

\* debug read as "any value but 0 or empty turns debugging on"
debugAnyTruthy(e) == Str(getenv(e, "DEBUG", "0")) \notin {"0", ""}

\* aws_config.py line 12
debug(e) == Str(getenv(e, "DEBUG", "0")) = "1"

\* aws_config.py line 23
required == <<"AWS_REGION", "AWS_ACCESS_KEY_ID", "AWS_SECRET_ACCESS_KEY">>

\* MissingAt testing "is None" instead of falsiness: "" passes
MissingAtUnsetOnly(e) == { i \in 1..Len(required) : getenv(e, required[i], None) = None }

\* indices of the required keys the loop of lines 24-26 would raise on
MissingAt(e) == { i \in 1..Len(required) : ~Truthy(getenv(e, required[i], None)) }

\* a set's least element
Min(S) == CHOOSE i \in S : \A j \in S : i <= j

\* load_aws_config without the loop of lines 24-26: whatever is there is returned
load_aws_config_lenient(e) ==
    IF debug(e)
    THEN [raised |-> None, missing |-> None,
          value |-> [endpoint_url |-> LocalstackHost,
                     region_name |-> "us-east-1",
                     aws_access_key_id |-> "test",
                     aws_secret_access_key |-> "test"]]
    ELSE [raised |-> None, missing |-> None,
          value |-> [endpoint_url |-> Str(getenv(e, "AWS_ENDPOINT_URL", None)),
                     region_name |-> Str(getenv(e, "AWS_REGION", None)),
                     aws_access_key_id |-> Str(getenv(e, "AWS_ACCESS_KEY_ID", None)),
                     aws_secret_access_key |->
                         Str(getenv(e, "AWS_SECRET_ACCESS_KEY", None))]]

\* load_aws_config(): raised is the exception type or None, missing the key
\* named in its message, value the returned dict (<<>> when it raised)
load_aws_config(e) ==
    IF debug(e)
    THEN [raised |-> None, missing |-> None,
          value |-> [endpoint_url |-> LocalstackHost,
                     region_name |-> "us-east-1",
                     aws_access_key_id |-> "test",
                     aws_secret_access_key |-> "test"]]
    ELSE IF MissingAt(e) # {}
    THEN [raised |-> "RuntimeError", missing |-> required[Min(MissingAt(e))],
          value |-> <<>>]
    ELSE [raised |-> None, missing |-> None,
          value |-> [endpoint_url |-> Str(getenv(e, "AWS_ENDPOINT_URL", None)),
                     region_name |-> Str(getenv(e, "AWS_REGION", None)),
                     aws_access_key_id |-> Str(getenv(e, "AWS_ACCESS_KEY_ID", None)),
                     aws_secret_access_key |->
                         Str(getenv(e, "AWS_SECRET_ACCESS_KEY", None))]]

\* ------------------------------------------------------ process start-up
StartState(e) ==
    /\ env = e
    /\ config = <<>>
    /\ client = FALSE
    /\ pc = "load_config"
    /\ api_name = None
    /\ http_method = None
    /\ api_id = None
    /\ root_resource_id = None
    /\ test_resource_id = None
    /\ deployment_id = None
    /\ invoke_url = <<>>
    /\ calls = <<>>
    /\ stdout = <<>>
    /\ clock = 0
    /\ exc = None
    /\ exit_code = 0

Init == \E e \in RunEnvironments : StartState(e)

InitConfig == \E e \in Environments : StartState(e)

\* the process ends on an uncaught exception: traceback, exit status 1
Crash(kind) ==
    /\ pc' = "done"
    /\ exc' = kind
    /\ exit_code' = 1

\* aws_gateway.py line 9: config = load_aws_config()
LoadConfig ==
    /\ pc = "load_config"
    /\ LET r == load_aws_config(env) IN
         IF r.raised # None
         THEN /\ Crash(r.raised)
              /\ UNCHANGED config
         ELSE /\ config' = r.value
              /\ pc' = "make_client"
              /\ UNCHANGED <<exc, exit_code>>
    /\ UNCHANGED <<env, client, runVars, calls, stdout, clock>>

\* aws_gateway.py line 11: apigateway_client = boto3.client("apigateway", **config)
MakeClient ==
    /\ pc = "make_client"
    /\ client' = TRUE
    /\ pc' = "create_rest_api"
    /\ UNCHANGED <<env, config, runVars, calls, stdout, clock, exc, exit_code>>

NextConfig == LoadConfig \/ MakeClient

SpecConfig == InitConfig /\ [][NextConfig]_vars

\* ------------------------------------------------------- aws_gateway.py
\* Statements with the child resource created before the root is wired
StatementsChildFirst ==
    <<"create_rest_api", "get_root_resource_id",
      "create_child_resource",
      "root_create_method", "root_create_method_response",
      "root_set_mock_integration", "root_set_mock_integration_response",
      "test_create_method", "test_create_method_response",
      "test_set_mock_integration", "test_set_mock_integration_response",
      "print_resources", "sleep", "create_deployment", "get_invoke_url">>

\* the statements of setup_rest_api_gateway, in program order
Statements ==
    <<"create_rest_api", "get_root_resource_id",
      "root_create_method", "root_create_method_response",
      "root_set_mock_integration", "root_set_mock_integration_response",
      "create_child_resource",
      "test_create_method", "test_create_method_response",
      "test_set_mock_integration", "test_set_mock_integration_response",
      "print_resources", "sleep", "create_deployment", "get_invoke_url">>

\* the statement following p in program order; returning from the last one
\* ends the run
After(p) ==
    LET i == CHOOSE k \in 1..Len(Statements) : Statements[k] = p
    IN IF i = Len(Statements) THEN "done" ELSE Statements[i + 1]

RootWiring == {"root_create_method", "root_create_method_response",
               "root_set_mock_integration", "root_set_mock_integration_response"}
TestWiring == {"test_create_method", "test_create_method_response",
               "test_set_mock_integration", "test_set_mock_integration_response"}

\* the remote operations of the four wiring functions
WiringOps == {"put_method", "put_method_response", "put_integration",
              "put_integration_response"}

\* every remote operation of the client
GatewayOps == {"create_rest_api", "get_resources", "create_resource",
               "create_deployment"} \cup WiringOps

\* ResourceArg with the two ids exchanged: the root is wired with the child id
ResourceArgSwapped(p) == IF p \in RootWiring THEN test_resource_id ELSE root_resource_id

\* ResourceArg with the root id pasted into the child's wiring calls
ResourceArgRootOnly(p) == root_resource_id

\* resource_id argument of the wiring statement at p (lines 176-181, 187-192)
ResourceArg(p) == IF p \in RootWiring THEN root_resource_id ELSE test_resource_id

\* ResponseBody with the two bodies exchanged
ResponseBodySwapped(p) == IF p \in RootWiring THEN "Hello from /test!" ELSE "Hello from root!"

\* response_body argument of the wiring statement at p
ResponseBody(p) == IF p \in RootWiring THEN "Hello from root!" ELSE "Hello from /test!"

\* functions whose remote call sits in try/except ClientError
Guarded == {"create_rest_api", "create_child_resource", "create_method",
            "create_method_response", "set_mock_integration",
            "set_mock_integration_response", "create_deployment"}

\* Caught with create_method_response left without its handler
CaughtButMethodResponse(fn, r) ==
    fn \in Guarded \ {"create_method_response"} /\ r = "ClientError"

\* does fn's handler catch a call ending in r
Caught(fn, r) == fn \in Guarded /\ r = "ClientError"

\* SleepSeconds one unit short
SleepSecondsShort == 10 - 1

\* time.sleep argument, line 140
SleepSeconds == 10

\* stage_name default, line 136
StageName == "prod"

\* DNS suffix and port of the invoke URL, line 155
InvokeHost == "execute-api.localhost.localstack.cloud:4566"

\* the record of one remote call: its arguments, how it ended, the id in its
\* response and the time it was issued
Call(op, api, res, verb, arg, result, id) ==
    [op |-> op, api |-> api, res |-> res, verb |-> verb, arg |-> arg,
     result |-> result, id |-> IF result = "ok" THEN id ELSE None, at |-> clock]

Line(text, detail) == [text |-> text, detail |-> detail]

\* ApiGuard without the exit: the run goes on with api_id = None
ApiGuardNoExit(id) == After("create_rest_api")

\* lines 169-170: if not api_id: exit(1)
ApiGuard(id) == IF ~Truthy(id) THEN "exit" ELSE After("create_rest_api")

\* ChildGuard without the test: the child is wired and deployed regardless
ChildGuardNoTest(id) == After("create_child_resource")

\* lines 185, 202: if test_resource_id: ... else: ...
ChildGuard(id) == IF Truthy(id) THEN After("create_child_resource") ELSE "skip"

\* DeployGuard without the test: the URL is resolved whatever was returned
DeployGuardNoTest(id) == After("create_deployment")

\* DeployGuard that tries the deployment again when it returned no id
DeployGuardRetry(id) == IF Truthy(id) THEN After("create_deployment") ELSE "create_deployment"

\* line 199: if deployment_id:
DeployGuard(id) == IF Truthy(id) THEN After("create_deployment") ELSE "done"

\* lines 168-170 with create_rest_api, lines 14-29
create_rest_api ==
    /\ pc = "create_rest_api"
    /\ \E name \in ApiNames, verb \in HttpVerbs, r \in Outcomes, id \in ApiIds :
         LET ret == IF r = "ok" THEN id ELSE None IN
         /\ api_name' = name
         /\ http_method' = verb
         /\ calls' = Append(calls, Call("create_rest_api", None, None, None, name, r, id))
         /\ IF r = "ok" \/ Caught("create_rest_api", r)
            THEN /\ api_id' = ret
                 /\ stdout' = Append(stdout,
                        IF r = "ok" THEN Line("Created REST API", id)
                                    ELSE Line("Error creating API", r))
                 /\ IF ApiGuard(ret) = "exit"
                    THEN /\ pc' = "done"
                         /\ exc' = "SystemExit"
                         /\ exit_code' = 1
                    ELSE /\ pc' = ApiGuard(ret)
                         /\ UNCHANGED <<exc, exit_code>>
            ELSE /\ Crash(r)
                 /\ UNCHANGED <<api_id, stdout>>
    /\ UNCHANGED <<env, config, client, root_resource_id, test_resource_id,
                   deployment_id, invoke_url, clock>>

\* line 173 with get_root_resource_id, lines 32-39
get_root_resource_id ==
    /\ pc = "get_root_resource_id"
    /\ \E r \in Outcomes, id \in RootIds :
         /\ calls' = Append(calls, Call("get_resources", api_id, None, None, None, r, id))
         /\ IF r = "ok"
            THEN /\ root_resource_id' = id
                 /\ stdout' = Append(stdout, Line("Root resource ID", id))
                 /\ pc' = After(pc)
                 /\ UNCHANGED <<exc, exit_code>>
            ELSE IF Caught("get_root_resource_id", r)
            THEN /\ stdout' = Append(stdout, Line("Error", r))
                 /\ pc' = After(pc)
                 /\ UNCHANGED <<root_resource_id, exc, exit_code>>
            ELSE /\ Crash(r)
                 /\ UNCHANGED <<root_resource_id, stdout>>
    /\ UNCHANGED <<env, config, client, api_name, http_method, api_id,
                   test_resource_id, deployment_id, invoke_url, clock>>

\* one wiring function called at one of its two call sites: the remote
\* call inside try/except, a line printed either way
Wire(fn, positions, op, arg, okText, errText) ==
    /\ pc \in positions
    /\ \E r \in Outcomes :
         /\ calls' = Append(calls,
                Call(op, api_id, ResourceArg(pc), http_method, arg, r, None))
         /\ IF r = "ok"
            THEN /\ stdout' = Append(stdout, Line(okText, ResourceArg(pc)))
                 /\ pc' = After(pc)
                 /\ UNCHANGED <<exc, exit_code>>
            ELSE IF Caught(fn, r)
            THEN /\ stdout' = Append(stdout, Line(errText, r))
                 /\ pc' = After(pc)
                 /\ UNCHANGED <<exc, exit_code>>
            ELSE /\ Crash(r)
                 /\ UNCHANGED stdout
    /\ UNCHANGED <<env, config, client, runVars, clock>>

\* lines 176, 187 with create_method, lines 56-69
create_method ==
    Wire("create_method", {"root_create_method", "test_create_method"},
         "put_method", "NONE", "Created method", "Error creating method")

\* lines 177, 188 with create_method_response, lines 72-86
create_method_response ==
    Wire("create_method_response",
         {"root_create_method_response", "test_create_method_response"},
         "put_method_response", "200",
         "Created method response (200)", "Error creating method response")

\* lines 178, 189 with set_mock_integration, lines 89-105; response_body is
\* accepted but not sent
set_mock_integration ==
    Wire("set_mock_integration",
         {"root_set_mock_integration", "test_set_mock_integration"},
         "put_integration", "MOCK",
         "Set mock integration", "Error setting integration")

\* lines 179-181, 190-192 with set_mock_integration_response, lines 108-125
set_mock_integration_response ==
    Wire("set_mock_integration_response",
         {"root_set_mock_integration_response", "test_set_mock_integration_response"},
         "put_integration_response", ResponseBody(pc),
         "Set mock integration response", "Error setting integration response")

\* lines 184-185, 202-203 with create_child_resource, lines 42-53
create_child_resource ==
    /\ pc = "create_child_resource"
    /\ \E r \in Outcomes, id \in ChildIds :
         LET ret == IF r = "ok" THEN id ELSE None IN
         /\ calls' = Append(calls,
                Call("create_resource", api_id, root_resource_id, None, "test", r, id))
         /\ IF r = "ok" \/ Caught("create_child_resource", r)
            THEN /\ test_resource_id' = ret
                 /\ IF ChildGuard(ret) = "skip"
                    THEN /\ stdout' = stdout \o
                              << IF r = "ok" THEN Line("Created child resource /test", id)
                                             ELSE Line("Error creating child resource", r),
                                 Line("Failed to create /test resource; skipping.", None) >>
                         /\ pc' = "done"
                    ELSE /\ stdout' = Append(stdout,
                              IF r = "ok" THEN Line("Created child resource /test", id)
                                          ELSE Line("Error creating child resource", r))
                         /\ pc' = ChildGuard(ret)
                 /\ UNCHANGED <<exc, exit_code>>
            ELSE /\ Crash(r)
                 /\ UNCHANGED <<test_resource_id, stdout>>
    /\ UNCHANGED <<env, config, client, api_name, http_method, api_id,
                   root_resource_id, deployment_id, invoke_url, clock>>

\* what get_resources lists: the root the service made with the API and the
\* child resources created since
Listing ==
    << Line("Path: /", root_resource_id) >> \o
    [ k \in 1..Cardinality({ i \in DOMAIN calls : calls[i].op = "create_resource"
                                                   /\ calls[i].result = "ok" }) |->
        Line("Path: /test", test_resource_id) ]

\* line 195 with print_resources, lines 128-133
print_resources ==
    /\ pc = "print_resources"
    /\ \E r \in Outcomes :
         /\ calls' = Append(calls, Call("get_resources", api_id, None, None, None, r, None))
         /\ IF r = "ok"
            THEN /\ stdout' = stdout \o << Line("Current Resources:", None) >> \o Listing
                 /\ pc' = After(pc)
                 /\ UNCHANGED <<exc, exit_code>>
            ELSE IF Caught("print_resources", r)
            THEN /\ stdout' = Append(stdout, Line("Error", r))
                 /\ pc' = After(pc)
                 /\ UNCHANGED <<exc, exit_code>>
            ELSE /\ Crash(r)
                 /\ UNCHANGED stdout
    /\ UNCHANGED <<env, config, client, runVars, clock>>

\* line 140: time.sleep(10) inside create_deployment
sleep ==
    /\ pc = "sleep"
    /\ \E d \in 0..MaxOversleep : clock' = clock + SleepSeconds + d
    /\ pc' = After(pc)
    /\ UNCHANGED <<env, config, client, runVars, calls, stdout, exc, exit_code>>

\* lines 141-150 of create_deployment and the test of line 199
create_deployment ==
    /\ pc = "create_deployment"
    /\ \E r \in Outcomes, id \in {"d1"} :
         LET ret == IF r = "ok" THEN id ELSE None IN
         /\ calls' = Append(calls,
                Call("create_deployment", api_id, None, None, StageName, r, id))
         /\ IF r = "ok" \/ Caught("create_deployment", r)
            THEN /\ deployment_id' = ret
                 /\ stdout' = Append(stdout,
                        IF r = "ok" THEN Line("Deployed API to stage", id)
                                    ELSE Line("Error deploying API", r))
                 /\ pc' = DeployGuard(ret)
                 /\ UNCHANGED <<exc, exit_code>>
            ELSE /\ Crash(r)
                 /\ UNCHANGED <<deployment_id, stdout>>
    /\ UNCHANGED <<env, config, client, api_name, http_method, api_id,
                   root_resource_id, test_resource_id, invoke_url, clock>>

\* InvokeUrl built from the deployment id in place of the API id
InvokeUrlByDeployment(id) == <<"http://", deployment_id, ".", InvokeHost, "/", "prod">>

\* f"http://{api_id}.execute-api.localhost.localstack.cloud:4566/prod", line 155
InvokeUrl(id) == <<"http://", id, ".", InvokeHost, "/", "prod">>

\* line 201 with get_invoke_url, lines 153-162
get_invoke_url ==
    /\ pc = "get_invoke_url"
    /\ invoke_url' = InvokeUrl(api_id)
    /\ stdout' = Append(stdout, Line("Base Invoke URL", api_id))
    /\ pc' = After(pc)
    /\ UNCHANGED <<env, config, client, api_name, http_method, api_id,
                   root_resource_id, test_resource_id, deployment_id, calls,
                   clock, exc, exit_code>>

Next ==
    \/ LoadConfig
    \/ MakeClient
    \/ create_rest_api
    \/ get_root_resource_id
    \/ create_method
    \/ create_method_response
    \/ set_mock_integration
    \/ set_mock_integration_response
    \/ create_child_resource
    \/ print_resources
    \/ sleep
    \/ create_deployment
    \/ get_invoke_url

Spec == Init /\ [][Next]_vars

\* ------------------------------------------------------------ observations
\* indices of the remote calls of operation op
CallsOf(op) == { i \in DOMAIN calls : calls[i].op = op }

\* indices of the calls of wiring operation op on resource res
WiringOf(op, res) == { i \in CallsOf(op) : calls[i].res = res }

\* indices of the calls that got a response
Succeeded == { i \in DOMAIN calls : calls[i].result = "ok" }

\* indices of all wiring calls
WiringCalls == { i \in DOMAIN calls : calls[i].op \in WiringOps }

\* the configuration has been bound by line 9
ConfigBound == DOMAIN config # {}

\* how a finished run ended, in the vocabulary of the design's terminal states
Outcome ==
    IF exc = "SystemExit" THEN "AbortedNoApi"
    ELSE IF exc # None THEN "Crashed"
    ELSE IF deployment_id # None /\ invoke_url # <<>> THEN "Deployed"
    ELSE IF CallsOf("create_resource") # {} /\ test_resource_id = None
         THEN "PartialNoChildResource"
    ELSE "DeploymentFailed"

\* ------------------------------------------------------------------ claims
\* C1: when create_rest_api yields no id the run is over at once with a
\* non-zero exit status, and create_rest_api is the only remote call of the run
C1_AbortWithoutApi ==
    (calls # <<>> /\ calls[1].id = None)
        => (pc = "done" /\ exit_code # 0 /\ Len(calls) = 1)

C1_Witness ==
    /\ pc = "done"
    /\ Len(calls) = 1
    /\ calls[1].op = "create_rest_api"
    /\ calls[1].result = "ClientError"
    /\ exc = "SystemExit"
    /\ exit_code = 1

\* C2: when create_resource fails, no wiring call targets anything but the
\* root resource, each of the four wiring operations was issued exactly once
\* on the root, and create_deployment is not called
C2_ChildFailure ==
    (\E i \in CallsOf("create_resource") : calls[i].result # "ok")
        => /\ \A j \in WiringCalls : calls[j].res = root_resource_id
           /\ \A op \in WiringOps : Cardinality(WiringOf(op, root_resource_id)) = 1
           /\ CallsOf("create_deployment") = {}

C2_Witness ==
    /\ pc = "done"
    /\ \E i \in CallsOf("create_resource") : calls[i].result = "ClientError"
    /\ test_resource_id = None
    /\ Cardinality(WiringCalls) = 4

\* C3: a finished run all of whose remote calls succeeded made exactly one
\* API, one child resource, one successful call of each wiring operation on
\* the root and one on the child and none elsewhere, and one deployment
C3_SuccessfulRun ==
    (pc = "done" /\ calls # <<>> /\ Succeeded = DOMAIN calls)
        => /\ Cardinality(CallsOf("create_rest_api")) = 1
           /\ Cardinality(CallsOf("create_resource")) = 1
           /\ root_resource_id # test_resource_id
           /\ \A op \in WiringOps :
                /\ Cardinality(WiringOf(op, root_resource_id)) = 1
                /\ Cardinality(WiringOf(op, test_resource_id)) = 1
                /\ Cardinality(CallsOf(op)) = 2
                /\ \A i \in CallsOf(op) : calls[i].verb = http_method
                                          /\ calls[i].api = api_id
           /\ Cardinality(CallsOf("create_deployment")) = 1

C3_Witness ==
    /\ pc = "done"
    /\ calls # <<>>
    /\ Succeeded = DOMAIN calls
    /\ http_method = "POST"
    /\ deployment_id # None

\* C4: create_deployment is issued no sooner than 10 time units after every
\* wiring call of the run
C4_PropagationInterval ==
    \A i \in CallsOf("create_deployment") : \A j \in WiringCalls :
        calls[i].at - calls[j].at >= 10

C4_Witness ==
    /\ CallsOf("create_deployment") # {}
    /\ Cardinality(WiringCalls) = 8

\* C5: create_deployment is issued only when, for the root and for the child,
\* each of the four wiring operations has already succeeded
C5_DeployOnlyFullyWired ==
    \A i \in CallsOf("create_deployment") :
        \A res \in {root_resource_id, test_resource_id} : \A op \in WiringOps :
            \E j \in WiringOf(op, res) : j < i /\ calls[j].result = "ok"

\* C6: a run that has ended is in one of the three terminal states
C6_TerminalStates ==
    (pc = "done" /\ client)
        => Outcome \in {"Deployed", "AbortedNoApi", "PartialNoChildResource"}

\* C7: no error of a remote call leaves the process uncaught
C7_NoRawError ==
    \A i \in DOMAIN calls : calls[i].result # "ok" => exc \in {None, "SystemExit"}

C9_ProductionMissing ==
    ( /\ pc # "load_config"
      /\ env["DEBUG"] # "1"
      /\ \E k \in {"AWS_REGION", "AWS_ACCESS_KEY_ID", "AWS_SECRET_ACCESS_KEY"} :
            env[k] \in {None, ""} )
        => (pc = "done" /\ exc = "RuntimeError" /\ ~ConfigBound /\ ~client)

C9_Witness ==
    /\ pc = "done"
    /\ env["DEBUG"] = None
    /\ env["AWS_REGION"] = "v"
    /\ env["AWS_ACCESS_KEY_ID"] = "v"
    /\ env["AWS_SECRET_ACCESS_KEY"] = ""
    /\ exc = "RuntimeError"

\* C10: once line 9 has run, DEBUG = "1" gives the local-endpoint
\* configuration whatever the other variables are, and any other DEBUG gives
\* the production result: RuntimeError, or the environment's own values
C10_DebugSelectsLocal ==
    pc # "load_config" =>
        IF env["DEBUG"] = "1"
        THEN /\ exc = None
             /\ ConfigBound
             /\ config = [endpoint_url |-> LocalstackHost,
                          region_name |-> "us-east-1",
                          aws_access_key_id |-> "test",
                          aws_secret_access_key |-> "test"]
        ELSE \/ exc = "RuntimeError" /\ ~ConfigBound
             \/ /\ ConfigBound
                /\ config.region_name = env["AWS_REGION"]
                /\ config.aws_access_key_id = env["AWS_ACCESS_KEY_ID"]
                /\ config.aws_secret_access_key = env["AWS_SECRET_ACCESS_KEY"]

C10_Witness ==
    /\ pc = "make_client"
    /\ env["DEBUG"] = "1"
    /\ env["AWS_REGION"] = None
    /\ env["AWS_ACCESS_KEY_ID"] = ""
    /\ env["AWS_SECRET_ACCESS_KEY"] = None
    /\ env["AWS_ENDPOINT_URL"] = None
    /\ ConfigBound
    /\ config.endpoint_url = LocalstackHost

\* C11: with DEBUG other than "1" and the three required variables set and
\* non-empty, line 9 binds a configuration whether or not AWS_ENDPOINT_URL is
\* set, and with it unset the configuration's endpoint_url is absent (None)
C11_EndpointOptional ==
    ( /\ pc # "load_config"
      /\ env["DEBUG"] # "1"
      /\ \A k \in {"AWS_REGION", "AWS_ACCESS_KEY_ID", "AWS_SECRET_ACCESS_KEY"} :
            env[k] \notin {None, ""} )
        => /\ exc = None
           /\ ConfigBound
           /\ env["AWS_ENDPOINT_URL"] = None => config.endpoint_url = None

\* positions in stdout of the lines whose text is t
LinesOf(t) == { k \in DOMAIN stdout : stdout[k].text = t }

\* positions in stdout of the lines of the resource listing
ListingLines == { k \in DOMAIN stdout : stdout[k].text \in {"Path: /", "Path: /test"} }

\* C12: a finished run for ("demo-api", "GET") whose calls all succeeded is
\* Deployed; its URL is http://<id from create_rest_api>.<host>/<stage given
\* to create_deployment>; and the listing printed before the deployment line
\* has exactly the two paths / and /test
C12_EndToEnd ==
    ( /\ pc = "done" /\ calls # <<>> /\ Succeeded = DOMAIN calls
      /\ api_name = "demo-api" /\ http_method = "GET" )
        => /\ Outcome = "Deployed"
           /\ \E d \in CallsOf("create_deployment") :
                invoke_url = <<"http://", calls[1].id, ".", InvokeHost, "/", calls[d].arg>>
           /\ Cardinality(ListingLines) = 2
           /\ Cardinality(LinesOf("Path: /")) = 1
           /\ Cardinality(LinesOf("Path: /test")) = 1
           /\ \A k \in ListingLines : \A d \in LinesOf("Deployed API to stage") : k < d

C12_Witness ==
    /\ pc = "done"
    /\ calls # <<>>
    /\ Succeeded = DOMAIN calls
    /\ api_name = "demo-api"
    /\ http_method = "GET"
    /\ invoke_url # <<>>
    /\ LinesOf("Deployed API to stage") # {}

\* C13: once line 9 has run in production mode with a required variable
\* unset or empty, the process has ended on RuntimeError with no client
\* constructed and no remote call issued, and line 9 is never run again
C13_ConfigErrorFatal ==
    /\ []( ( /\ pc # "load_config"
             /\ env["DEBUG"] # "1"
             /\ \E k \in {"AWS_REGION", "AWS_ACCESS_KEY_ID", "AWS_SECRET_ACCESS_KEY"} :
                   env[k] \in {None, ""} )
           => ( /\ pc = "done" /\ exc = "RuntimeError" /\ exit_code # 0
                /\ ~client /\ ~ConfigBound /\ calls = <<>> ) )
    /\ [][ pc # "load_config" => pc' # "load_config" ]_vars
    /\ [][ exc = "RuntimeError" => UNCHANGED vars ]_vars

C13_Witness ==
    /\ pc = "done"
    /\ exc = "RuntimeError"
    /\ env["AWS_SECRET_ACCESS_KEY"] = None
    /\ ~client
    /\ calls = <<>>

\* the line each function prints when its remote call fails (lines 28, 52, 68,
\* 86, 105, 125, 149); get_root_resource_id and print_resources print none
ErrorText(op) ==
    CASE op = "create_rest_api" -> "Error creating API"
      [] op = "create_resource" -> "Error creating child resource"
      [] op = "put_method" -> "Error creating method"
      [] op = "put_method_response" -> "Error creating method response"
      [] op = "put_integration" -> "Error setting integration"
      [] op = "put_integration_response" -> "Error setting integration response"
      [] op = "create_deployment" -> "Error deploying API"
      [] OTHER -> "Error"

\* failed remote calls of operation op, and the lines reporting such a failure
FailedCalls(op) == { i \in CallsOf(op) : calls[i].result # "ok" }
ErrorLines(op) == { k \in LinesOf(ErrorText(op)) : stdout[k].detail # None }

\* C14: in a finished run every failed remote call has its own printed line
\* naming the failed step and carrying the cause
C14_EveryFailureReported ==
    pc = "done" =>
        \A op \in GatewayOps :
            /\ Cardinality(ErrorLines(op)) = Cardinality(FailedCalls(op))
            /\ \A i \in FailedCalls(op) :
                 \E k \in ErrorLines(op) : stdout[k].detail = calls[i].result

\* the remote operations of a complete run, in the order of the design's
\* stages: CreateApi, ResolveRoot, WireResource(root), CreateChildResource,
\* WireResource(child), ListResources, CreateDeployment
StageOrder ==
    <<"create_rest_api", "get_resources",
      "put_method", "put_method_response", "put_integration", "put_integration_response",
      "create_resource",
      "put_method", "put_method_response", "put_integration", "put_integration_response",
      "get_resources", "create_deployment">>

\* C15: the remote calls of a run are, in order, an initial part of the
\* stage order: the four root wiring calls precede create_resource, the
\* wait of at least 10 units lies between the listing and create_deployment,
\* and the invoke URL is resolved only after all thirteen calls
C15_StageOrder ==
    /\ Len(calls) <= Len(StageOrder)
    /\ \A i \in DOMAIN calls : calls[i].op = StageOrder[i]
    /\ \A i, j \in DOMAIN calls : i < j => calls[i].at <= calls[j].at
    /\ \A c \in CallsOf("create_resource") :
         \A op \in WiringOps : \E j \in WiringOf(op, root_resource_id) : j < c
    /\ \A d \in CallsOf("create_deployment") : calls[d].at - calls[d - 1].at >= 10
    /\ (pc = "get_invoke_url" \/ invoke_url # <<>>) => Len(calls) = Len(StageOrder)

C15_Witness ==
    /\ pc = "done"
    /\ Len(calls) = Len(StageOrder)
    /\ invoke_url # <<>>
    /\ \E i \in WiringCalls : calls[i].result = "ClientError"

\* place of a wiring operation in putMethod, putMethodResponse,
\* putIntegration, putIntegrationResponse
WiringRank(op) ==
    CASE op = "put_method" -> 1
      [] op = "put_method_response" -> 2
      [] op = "put_integration" -> 3
      [] op = "put_integration_response" -> 4

\* C16: the wiring calls on one resource come in the order put_method,
\* put_method_response, put_integration, put_integration_response with no
\* step left out, each with the run's verb, and put_integration_response
\* carries "Hello from root!" on the root and "Hello from /test!" on the child
C16_WiringOrderAndBody ==
    \A i \in WiringCalls :
        /\ calls[i].verb = http_method
        /\ calls[i].res \in {root_resource_id, test_resource_id}
        /\ calls[i].res # None
        /\ Cardinality({ j \in WiringCalls : j < i /\ calls[j].res = calls[i].res })
              = WiringRank(calls[i].op) - 1
        /\ calls[i].op = "put_integration_response" =>
              calls[i].arg = IF calls[i].res = root_resource_id
                             THEN "Hello from root!" ELSE "Hello from /test!"

C16_Witness ==
    /\ \E i \in WiringOf("put_integration_response", root_resource_id) :
          calls[i].arg = "Hello from root!"
    /\ \E i \in WiringOf("put_integration_response", test_resource_id) :
          calls[i].arg = "Hello from /test!" /\ calls[i].verb = "POST"
    /\ test_resource_id # None

\* C17: however the get_resources call of print_resources ends, the run goes
\* on to the propagation wait with the same identifiers, so the wait, the
\* deployment and the invoke URL follow with the same arguments
C17_VerificationObservational ==
    [][ pc = "print_resources"
        => (pc' = After("print_resources") /\ exc' = None /\ UNCHANGED runVars) ]_vars

\* C18: whatever calls fail, create_rest_api, create_resource and
\* create_deployment are each issued at most once, and no wiring operation is
\* issued twice for the same resource id and verb
C18_NoRetry ==
    /\ \A op \in {"create_rest_api", "create_resource", "create_deployment"} :
         Cardinality(CallsOf(op)) <= 1
    /\ \A i, j \in WiringCalls :
         ( /\ calls[i].op = calls[j].op
           /\ calls[i].res = calls[j].res
           /\ calls[i].verb = calls[j].verb ) => i = j

C18_Witness ==
    /\ pc = "done"
    /\ \E i \in CallsOf("put_method") : calls[i].result = "ClientError"
    /\ \E i \in CallsOf("create_deployment") : calls[i].result = "ClientError"
    /\ Cardinality(CallsOf("put_method")) = 2

\* ids of the resources the service has reported or created before call i
ResourcesBefore(i) ==
    { calls[j].id : j \in { k \in CallsOf("get_resources") \cup CallsOf("create_resource") :
                              k < i /\ calls[k].result = "ok" /\ calls[k].id # None } }

\* C19: every wiring, create_resource and create_deployment call carries the
\* id the run's create_rest_api returned; create_resource is given the
\* resolved root as parent; and every wiring call's resource id was returned
\* earlier in the run by the root lookup or by a successful create_resource
C19_IdsThreaded ==
    /\ \A i \in DOMAIN calls :
         calls[i].op \in WiringOps \cup {"create_resource", "create_deployment"}
            => (calls[i].api = calls[1].id /\ calls[i].api # None)
    /\ \A c \in CallsOf("create_resource") :
         /\ calls[c].res = calls[2].id
         /\ calls[c].res # None
    /\ \A i \in WiringCalls :
         /\ calls[i].res # None
         /\ calls[i].res \in ResourcesBefore(i)

C19_Witness ==
    /\ CallsOf("create_deployment") # {}
    /\ \E i \in WiringCalls : calls[i].res = test_resource_id /\ calls[i].res \in ChildIds
    /\ \E i \in WiringCalls : calls[i].res = root_resource_id /\ calls[i].res \in RootIds
    /\ calls[1].id = "a2"

\* C20: the invoke URL is resolved and printed only when the run's last
\* remote call is a create_deployment that returned the deployment id; after
\* a failed create_deployment the run is over with no URL and no later call
C20_UrlOnlyAfterDeployment ==
    /\ (pc = "get_invoke_url" \/ invoke_url # <<>> \/ LinesOf("Base Invoke URL") # {})
         => /\ calls # <<>>
            /\ calls[Len(calls)].op = "create_deployment"
            /\ calls[Len(calls)].result = "ok"
            /\ calls[Len(calls)].id = deployment_id
            /\ deployment_id # None
    /\ \A d \in FailedCalls("create_deployment") :
         /\ pc = "done"
         /\ d = Len(calls)
         /\ invoke_url = <<>>
         /\ LinesOf("Base Invoke URL") = {}

C20_Witness ==
    /\ pc = "done"
    /\ exc = None
    /\ \E d \in CallsOf("create_deployment") : calls[d].result = "ClientError"
    /\ invoke_url = <<>>
    /\ deployment_id = None
====
